---- MODULE Spec2Model ----
(***************************************************************************)
(* Model of src/render-health-wrapper.ts: the readiness-gated reverse      *)
(* proxy in front of the OpenClaw gateway (the second, HTTP + WebSocket    *)
(* version of the wrapper, lines 108-332).                                 *)
(*                                                                         *)
(* The program is a single-threaded reactor: every handler runs to         *)
(* completion, so each handler is one action.  What the environment does   *)
(* (the gateway's stdout, clients, the backend's sockets) is drawn with \E *)
(* from small sets.  Text is modelled as a sequence of one-character       *)
(* strings, so that includes/split/trim are computed, not assumed.         *)
(***************************************************************************)
EXTENDS Integers, Sequences, FiniteSets

VARIABLES
    gatewayReady,   \* let gatewayReady (line 126)
    markerSeen,     \* history: a stdout data event containing a marker was observed
    proc,           \* the wrapper process: running, or exited with a reason and a code
    reqs,           \* the unary exchanges the 'request' handler has handled, in order
    tuns,           \* the upgraded connections the 'upgrade' handler has handled, in order
    fs,             \* the state directory and the settings file (lines 129-166)
    gateway,        \* gatewayProcess, the child process (lines 277-316, 330)
    server,         \* proxyServer as a listener (lines 319-332)
    console,        \* what the wrapper has logged (lines 299, 305)
    stream          \* history: the gateway's stdout so far, as far as markers go

lifeVars == <<fs, gateway, server>>
outVars == <<console, stream>>
vars == <<gatewayReady, markerSeen, proc, reqs, tuns, lifeVars, outVars>>

(***************************************************************************)
(* Bounds of the model.                                                    *)
(***************************************************************************)
MaxRequests == 2
MaxTunnels == 1
MaxClientBytes == 2
MaxBackendBytes == 1

(***************************************************************************)
(* Text helpers.                                                           *)
(***************************************************************************)
\* String.prototype.includes
Includes(s, m) ==
    \E i \in 0..(Len(s) - Len(m)) : SubSeq(s, i + 1, i + Len(m)) = m

StrListening == <<"l", "i", "s", "t", "e", "n", "i", "n", "g">>
StrStarted == <<"s", "t", "a", "r", "t", "e", "d">>
StrBound == <<"b", "o", "u", "n", "d">>

StrBoot == <<"b", "o", "o", "t">>

\* a marker in two pieces
StrList == <<"l", "i", "s", "t">>
StrEning == <<"e", "n", "i", "n", "g">>

\* What the gateway may print in one stdout data event.
StdoutChunks ==
    { StrListening,
      StrStarted,
      StrBound,
      <<"L", "i", "s", "t", "e", "n", "i", "n", "g">>,
      <<"S", "T", "A", "R", "T", "E", "D">>,
      StrBoot,
      StrList,
      StrEning,
      <<"u", "n", "b", "o", "u", "n", "d", "e", "d">>,
      <<"o", "k", " ", "s", "t", "a", "r", "t", "e", "d", "!">> }

\* the condition of line 297
HasMarker(output) ==
    \/ Includes(output, StrListening)
    \/ Includes(output, StrStarted)
    \/ Includes(output, StrBound)

Running == proc.state = "running"

\* An uncaught exception, or an 'error' event nobody listens to, ends the
\* process with code 1.
Crashed(why) == [state |-> "exited", reason |-> why, code |-> 1]

\* Once the process has exited, its exchanges and sockets are gone with it.
NoConnections == <<>>

(***************************************************************************)
(* The gateway process.                                                    *)
(***************************************************************************)
\* mutant: the flag follows the last data event
ReadyAfterLastChunk(ready, output) == HasMarker(output)

\* gatewayProcess.stdout.on("data") (lines 292-301)
ReadyAfter(ready, output) == IF HasMarker(output) THEN TRUE ELSE ready

\* line 299: one "[proxy] Gateway detected as ready" entry per data event
\* that holds a marker
ReadyLogsAfter(logged, output) == IF HasMarker(output) THEN logged + 1 ELSE logged

Markers == {StrListening, StrStarted, StrBound}

\* s is the beginning of a marker, and not all of it
IsMarkerStart(s) ==
    /\ s # <<>>
    /\ \E m \in Markers : Len(s) < Len(m) /\ SubSeq(m, 1, Len(s)) = s

\* the longest end of text that is the beginning of a marker
MarkerStartAtEnd(text) ==
    LET starts == {k \in 1..Len(text) : IsMarkerStart(SubSeq(text, k, Len(text)))}
    IN IF starts = {} THEN <<>>
       ELSE SubSeq(text, CHOOSE k \in starts : \A j \in starts : k <= j, Len(text))

\* The gateway's stdout is one stream of characters, which the pipe hands
\* over in data events of any size.  Of the stream so far, stream holds
\* whether a marker occurred in it, and the marker its end may be beginning.
StreamAfter(st, output) ==
    [hasMarker |-> st.hasMarker \/ HasMarker(st.partial \o output),
     partial |-> MarkerStartAtEnd(st.partial \o output)]

\* the values stream takes, and StreamAfter on them as a table
StreamStates ==
    { [hasMarker |-> h, partial |-> p] :
        h \in BOOLEAN,
        p \in {<<>>} \cup UNION { {SubSeq(m, 1, n) : n \in 1..(Len(m) - 1)} : m \in Markers } }

StreamTable == [st \in StreamStates, output \in StdoutChunks |-> StreamAfter(st, output)]

MaxReadyLogs == 2

StdoutData(output) ==
    /\ Running
    /\ HasMarker(output) => console.ready < MaxReadyLogs
    /\ gatewayReady' = ReadyAfter(gatewayReady, output)
    /\ markerSeen' = (markerSeen \/ HasMarker(output))
    /\ console' = [console EXCEPT !.ready = ReadyLogsAfter(@, output)]
    /\ stream' = StreamTable[stream, output]
    /\ UNCHANGED <<proc, reqs, tuns, lifeVars>>

MaxStderrLogs == 1

\* gatewayProcess.stderr.on("data") (lines 303-306): the text is logged
StderrData(output) ==
    /\ Running
    /\ console.err < MaxStderrLogs
    /\ console' = [console EXCEPT !.err = @ + 1]
    /\ UNCHANGED <<gatewayReady, markerSeen, proc, reqs, tuns, lifeVars, stream>>

ExitCodes == {0, 3, -1}   \* -1 stands for null: the gateway was killed by a signal

\* mutant: a gateway ended by a signal counts as a clean exit
ExitCodeOrZero(code) == IF code = -1 THEN 0 ELSE code

\* line 315: code ?? 1
ExitCodeFor(code) == IF code = -1 THEN 1 ELSE code

\* gatewayProcess.on("exit") (lines 313-316): process.exit(code ?? 1)
GatewayExit(code) ==
    /\ Running
    /\ gateway.state = "running"
    /\ proc' = [state |-> "exited", reason |-> "backend_exit",
                code |-> ExitCodeFor(code)]
    /\ gateway' = [gateway EXCEPT !.state = "exited", !.code = code]
    /\ reqs' = NoConnections
    /\ tuns' = NoConnections
    /\ UNCHANGED <<gatewayReady, markerSeen, fs, server, outVars>>

\* gatewayProcess.on("error") (lines 308-311): the child could not be
\* started; node emits 'error' and no 'exit' for it
GatewayError ==
    /\ proc.state = "listening"
    /\ gateway.state = "failing"
    /\ proc' = [state |-> "exited", reason |-> "spawn_error", code |-> 1]
    /\ gateway' = [gateway EXCEPT !.state = "failed"]
    /\ reqs' = NoConnections
    /\ tuns' = NoConnections
    /\ UNCHANGED <<gatewayReady, markerSeen, fs, server, outVars>>

(***************************************************************************)
(* The request an 'upgrade' event carries, and the request head the        *)
(* handler rebuilds for the gateway (lines 220-254).                       *)
(*                                                                         *)
(* req.headers is a sequence of entries [key, arr, val] in insertion       *)
(* order: key is lower case (node lower-cases header names), val is a      *)
(* text, or, when arr, a sequence of texts (an array-valued header).       *)
(* The rebuilt head is a sequence of lines [key, val]: the text            *)
(* "key: val\r\n", or, with key "", the text "val\r\n" (the request line   *)
(* and the closing blank line).                                            *)
(***************************************************************************)
UpperChars == <<"A", "B", "C", "D", "E", "F", "G", "H", "I", "J", "K", "L", "M",
                "N", "O", "P", "Q", "R", "S", "T", "U", "V", "W", "X", "Y", "Z">>
LowerChars == <<"a", "b", "c", "d", "e", "f", "g", "h", "i", "j", "k", "l", "m",
                "n", "o", "p", "q", "r", "s", "t", "u", "v", "w", "x", "y", "z">>

LowerChar(c) ==
    IF \E i \in 1..Len(UpperChars) : UpperChars[i] = c
    THEN LowerChars[CHOOSE i \in 1..Len(UpperChars) : UpperChars[i] = c]
    ELSE c

\* String.prototype.toLowerCase
ToLowerCase(s) == [i \in 1..Len(s) |-> LowerChar(s[i])]

\* String.prototype.startsWith
StartsWith(s, p) == Len(s) >= Len(p) /\ SubSeq(s, 1, Len(p)) = p

\* s.split(",")[0]
SplitFirst(s) ==
    IF \E i \in 1..Len(s) : s[i] = ","
    THEN SubSeq(s, 1, (CHOOSE i \in 1..Len(s) :
                          s[i] = "," /\ \A j \in 1..(i - 1) : s[j] # ",") - 1)
    ELSE s

\* String.prototype.trim
Trim(s) ==
    IF \A i \in 1..Len(s) : s[i] = " "
    THEN <<>>
    ELSE LET first == CHOOSE i \in 1..Len(s) :
                          s[i] # " " /\ \A j \in 1..(i - 1) : s[j] = " "
             last == CHOOSE i \in 1..Len(s) :
                          s[i] # " " /\ \A j \in (i + 1)..Len(s) : s[j] = " "
         IN SubSeq(s, first, last)

RECURSIVE Join(_, _)
\* Array.prototype.join
Join(items, sep) ==
    IF items = <<>> THEN <<>>
    ELSE IF Len(items) = 1 THEN items[1]
    ELSE items[1] \o sep \o Join(Tail(items), sep)

HasHeader(headers, key) == \E i \in 1..Len(headers) : headers[i].key = key

HeaderEntry(headers, key) ==
    headers[CHOOSE i \in 1..Len(headers) : headers[i].key = key]

\* !req.headers[key] is false: the header is there and is not the empty text
Truthy(headers, key) ==
    /\ HasHeader(headers, key)
    /\ (HeaderEntry(headers, key).arr \/ HeaderEntry(headers, key).val # <<>>)

\* value.toString()
ValueToString(entry) == IF entry.arr THEN Join(entry.val, <<",">>) ELSE entry.val

StrUnknown == <<"u", "n", "k", "n", "o", "w", "n">>
StrUpgrade == <<"u", "p", "g", "r", "a", "d", "e">>
StrWebsocket == <<"w", "e", "b", "s", "o", "c", "k", "e", "t">>
StrWssScheme == <<"w", "s", "s", ":", "/", "/">>

Or(a, b) == IF a # <<>> THEN a ELSE b   \* a || b on texts; undefined is <<>>

\* lines 221-222
ClientIp(req) ==
    Or(Or(IF HasHeader(req.headers, "x-forwarded-for")
          THEN Trim(SplitFirst(ValueToString(HeaderEntry(req.headers, "x-forwarded-for"))))
          ELSE <<>>,
          req.remoteAddress),
       StrUnknown)

Line(key, val) == [key |-> key, val |-> val]

\* line 225
RequestLine(req) ==
    Line("", req.method \o <<" ">> \o req.url \o <<" ", "H", "T", "T", "P", "/">>
             \o req.httpVersion)

\* lines 228-230
ForwardedLines(headers) ==
    [i \in 1..Len(headers) |->
        Line(headers[i].key,
             IF headers[i].arr THEN Join(headers[i].val, <<",", " ">>)
             ELSE headers[i].val)]

\* lines 233-235
XffLines(req) ==
    IF ~Truthy(req.headers, "x-forwarded-for")
    THEN <<Line("X-Forwarded-For", ClientIp(req))>> ELSE <<>>

\* lines 236-238
ProtoLines(req) ==
    IF ~Truthy(req.headers, "x-forwarded-proto")
    THEN <<Line("X-Forwarded-Proto",
                IF StartsWith(req.url, StrWssScheme) THEN <<"w", "s", "s">>
                ELSE <<"w", "s">>)>>
    ELSE <<>>

\* lines 239-241
HostLines(req) ==
    IF ~Truthy(req.headers, "x-forwarded-host")
    THEN <<Line("X-Forwarded-Host",
                Or(IF HasHeader(req.headers, "host")
                   THEN HeaderEntry(req.headers, "host").val ELSE <<>>,
                   StrUnknown))>>
    ELSE <<>>

\* lines 242-244
RealIpLines(req) ==
    IF ~Truthy(req.headers, "x-real-ip")
    THEN <<Line("X-Real-IP", ClientIp(req))>> ELSE <<>>

\* lines 247-249
ConnectionLines(req) ==
    IF ~(/\ HasHeader(req.headers, "connection")
         /\ Includes(ToLowerCase(ValueToString(HeaderEntry(req.headers, "connection"))),
                     StrUpgrade))
    THEN <<Line("Connection", <<"U", "p", "g", "r", "a", "d", "e">>)>> ELSE <<>>

\* lines 250-252
UpgradeLines(req) ==
    IF ~Truthy(req.headers, "upgrade")
    THEN <<Line("Upgrade", StrWebsocket)>> ELSE <<>>

\* lines 225-254: the text written to the gateway, line by line
BuildUpgradeRequest(req) ==
    <<RequestLine(req)>> \o ForwardedLines(req.headers)
      \o XffLines(req) \o ProtoLines(req) \o HostLines(req) \o RealIpLines(req)
      \o ConnectionLines(req) \o UpgradeLines(req)
      \o <<Line("", <<>>)>>

(***************************************************************************)
(* The header block of a unary exchange (lines 189, 192).  On the wire it  *)
(* is a sequence of fields [name, val], in the sender's spelling.  node    *)
(* hands the handler req.headers / proxyRes.headers: names in lower case,  *)
(* one entry per name in the order of first occurrence, a repeated field   *)
(* joined, dropped, or (set-cookie) kept as an array.  http.request and    *)
(* res.writeHead write one line per entry, one per element of an array.    *)
(***************************************************************************)
Field(name, val) == [name |-> name, val |-> val]

NameHost == <<"h", "o", "s", "t">>
NameConnection == <<"c", "o", "n", "n", "e", "c", "t", "i", "o", "n">>
NameContentType == <<"c", "o", "n", "t", "e", "n", "t", "-", "t", "y", "p", "e">>
NameContentLength == <<"c", "o", "n", "t", "e", "n", "t", "-", "l", "e", "n", "g", "t", "h">>
NameSetCookie == <<"s", "e", "t", "-", "c", "o", "o", "k", "i", "e">>
NameCookie == <<"c", "o", "o", "k", "i", "e">>
NameDate == <<"d", "a", "t", "e">>
NameTag == <<"x", "-", "t", "a", "g">>

\* fields of which node keeps the first value only
SingleFields == {NameHost, NameContentType, NameContentLength}

HasField(entries, key) == \E k \in 1..Len(entries) : entries[k].key = key

\* one more field of the wire goes into the headers object
AddField(entries, field) ==
    LET key == ToLowerCase(field.name)
    IN IF ~HasField(entries, key)
       THEN Append(entries,
                [key |-> key, arr |-> key = NameSetCookie,
                 val |-> IF key = NameSetCookie THEN <<field.val>> ELSE field.val])
       ELSE [k \in 1..Len(entries) |->
               IF entries[k].key # key THEN entries[k]
               ELSE IF key = NameSetCookie
                    THEN [entries[k] EXCEPT !.val = Append(@, field.val)]
               ELSE IF key \in SingleFields THEN entries[k]
               ELSE [entries[k] EXCEPT
                       !.val = @ \o (IF key = NameCookie THEN <<";", " ">>
                                      ELSE <<",", " ">>) \o field.val]]

RECURSIVE ParseHeaders(_)
\* IncomingMessage.headers of a header block
ParseHeaders(fields) ==
    IF fields = <<>> THEN <<>>
    ELSE AddField(ParseHeaders(SubSeq(fields, 1, Len(fields) - 1)), fields[Len(fields)])

RECURSIVE WriteHeaders(_)
\* the lines written for a headers object
WriteHeaders(entries) ==
    IF entries = <<>> THEN <<>>
    ELSE (IF entries[1].arr
          THEN [k \in 1..Len(entries[1].val) |-> Field(entries[1].key, entries[1].val[k])]
          ELSE <<Field(entries[1].key, entries[1].val)>>)
         \o WriteHeaders(Tail(entries))

StrKeepAlive == <<"k", "e", "e", "p", "-", "a", "l", "i", "v", "e">>

\* http.request (lines 183-190): the request's entries, and the agent's
\* Connection line when the entries hold none
RequestLines(entries) ==
    WriteHeaders(entries)
      \o (IF HasField(entries, NameConnection) THEN <<>>
          ELSE <<Field(<<"C", "o", "n", "n", "e", "c", "t", "i", "o", "n">>, StrKeepAlive)>>)

(***************************************************************************)
(* Unary requests: the 'request' handler of proxyServer (lines 169-204).   *)
(***************************************************************************)
MethodGet == <<"G", "E", "T">>
MethodPost == <<"P", "O", "S", "T">>
Methods == {MethodGet, MethodPost}
UrlHealth == <<"/", "h", "e", "a", "l", "t", "h">>
UrlFoo == <<"/", "f", "o", "o">>
Urls == {UrlHealth, UrlFoo}
BackendStatuses == {200, 201}

ResHead(status, ctype) == [status |-> status, ctype |-> ctype]

\* lines 171-180: the probe is answered from the flag alone
HealthResponse(ready) ==
    IF ready
    THEN [head |-> ResHead(200, "application/json"), body |-> "ok"]
    ELSE [head |-> ResHead(503, "application/json"), body |-> "starting"]

\* mutant: the error handler answers 500
InternalErrorResponse ==
    [head |-> ResHead(500, "text/plain"), body |-> "Bad Gateway - Gateway unavailable"]

\* lines 197-201: what the error handler of proxyReq writes
BadGatewayResponse ==
    [head |-> ResHead(502, "text/plain"), body |-> "Bad Gateway - Gateway unavailable"]

\* lines 183-195: one http.request per inbound request
AttemptsPerRequest == 1

\* The header blocks of the exchanges: a request as a browser sends it, one
\* in lower case without a Connection field, one with a repeated field; a
\* response as a node backend writes it, and one with two cookies.
WireHost == Field(<<"H", "o", "s", "t">>, <<"h">>)
WireKeepAlive == Field(<<"C", "o", "n", "n", "e", "c", "t", "i", "o", "n">>, StrKeepAlive)

PlainRequest == <<WireHost, WireKeepAlive>>

RequestBlocks ==
    { PlainRequest,
      <<Field(NameHost, <<"h">>)>>,
      <<WireHost, Field(<<"X", "-", "T", "a", "g">>, <<"a">>), Field(<<"X", "-", "T", "a", "g">>, <<"b">>), WireKeepAlive>> }

WireFraming ==
    <<Field(<<"C", "o", "n", "t", "e", "n", "t", "-", "L", "e", "n", "g", "t", "h">>, <<"3">>), Field(<<"D", "a", "t", "e">>, <<"d">>), WireKeepAlive>>

PlainResponse == <<Field(<<"C", "o", "n", "t", "e", "n", "t", "-", "T", "y", "p", "e">>, <<"t">>)>> \o WireFraming

ResponseBlocks ==
    { PlainResponse,
      <<Field(NameContentType, <<"t">>), Field(<<"S", "e", "t", "-", "C", "o", "o", "k", "i", "e">>, <<"a">>),
        Field(<<"S", "e", "t", "-", "C", "o", "o", "k", "i", "e">>, <<"b">>)>> \o WireFraming }

\* the bytes of a request body and of a response body, each pairwise different
RequestBody == <<"q1", "q2", "q3">>
ResponseBody == <<"r1", "r2", "r3">>

MaxBodyBytes == 1

NoRequest == [method |-> <<>>, path |-> <<>>, lines |-> <<>>]
NoResponse == [status |-> 0, fields |-> <<>>]

\* what http.request writes for each header block, what res.writeHead does
UpstreamLines == [fields \in RequestBlocks |-> RequestLines(ParseHeaders(fields))]
ResponseLines == [fields \in ResponseBlocks |-> WriteHeaders(ParseHeaders(fields))]

\* mutant: every request goes upstream as a GET
UpstreamRequestGet(method, url, lines) ==
    [method |-> MethodGet, path |-> url, lines |-> lines]

\* the options of http.request (lines 184-190)
UpstreamRequest(method, url, lines) ==
    [method |-> method, path |-> url, lines |-> lines]

\* proxyServer 'request' handler (lines 169-204)
HttpRequest(method, url, fields) ==
    /\ Running
    /\ server.listening
    /\ Len(reqs) < MaxRequests
    /\ reqs' = Append(reqs,
         IF url = UrlHealth
         THEN [kind |-> "probe", method |-> method, url |-> url,
               heads |-> <<HealthResponse(gatewayReady).head>>,
               body |-> <<HealthResponse(gatewayReady).body>>,
               ended |-> TRUE, attempts |-> 0,
               inbound |-> "open", upstream |-> "none",
               seen |-> markerSeen, failedEarly |-> FALSE,
               wire |-> fields, up |-> NoRequest,
               sentBody |-> <<>>, upBody |-> <<>>,
               resWire |-> NoResponse, resLines |-> <<>>, resSent |-> <<>>]
         ELSE [kind |-> "proxy", method |-> method, url |-> url,
               heads |-> <<>>, body |-> <<>>,
               ended |-> FALSE, attempts |-> AttemptsPerRequest,
               inbound |-> "open", upstream |-> "open",
               seen |-> markerSeen, failedEarly |-> FALSE,
               wire |-> fields,
               up |-> UpstreamRequest(method, url, UpstreamLines[fields]),
               sentBody |-> <<>>, upBody |-> <<>>,
               resWire |-> NoResponse, resLines |-> <<>>, resSent |-> <<>>])
    /\ UNCHANGED <<gatewayReady, markerSeen, proc, tuns, lifeVars, outVars>>

\* the response callback of http.request (lines 191-194)
ProxyResponse(i, status, fields) ==
    /\ Running
    /\ i \in 1..Len(reqs)
    /\ reqs[i].upstream = "open"
    /\ reqs[i].heads = <<>>
    /\ reqs' = [reqs EXCEPT ![i].heads = <<ResHead(status, "backend")>>,
                            ![i].resWire = [status |-> status, fields |-> fields],
                            ![i].resLines = ResponseLines[fields]]
    /\ UNCHANGED <<gatewayReady, markerSeen, proc, tuns, lifeVars, outVars>>

\* proxyRes.pipe(res) (line 193): the backend's body ends, res.end() follows
ProxyResEnd(i) ==
    /\ Running
    /\ i \in 1..Len(reqs)
    /\ reqs[i].upstream = "open"
    /\ reqs[i].heads # <<>>
    /\ reqs[i].inbound = "open"
    /\ reqs' = [reqs EXCEPT ![i].body = Append(@, "backend-body"),
                            ![i].resSent = Append(@, "backend-body"),
                            ![i].ended = TRUE,
                            ![i].upstream = "closed"]
    /\ UNCHANGED <<gatewayReady, markerSeen, proc, tuns, lifeVars, outVars>>

\* pipe() on 'data': the byte is written to the destination
PipeBody(written, b) == Append(written, b)

\* req.pipe(proxyReq) (line 203): a byte of the request body
RequestData(i) ==
    /\ Running
    /\ i \in 1..Len(reqs)
    /\ reqs[i].kind = "proxy"
    /\ reqs[i].inbound = "open"
    /\ reqs[i].upstream = "open"
    /\ ~reqs[i].ended
    /\ Len(reqs[i].sentBody) < MaxBodyBytes
    /\ reqs' = [reqs EXCEPT
         ![i].sentBody = Append(@, RequestBody[Len(@) + 1]),
         ![i].upBody = PipeBody(@, RequestBody[Len(reqs[i].sentBody) + 1])]
    /\ UNCHANGED <<gatewayReady, markerSeen, proc, tuns, lifeVars, outVars>>

\* proxyRes.pipe(res) (line 193): a byte of the response body
ProxyResData(i) ==
    /\ Running
    /\ i \in 1..Len(reqs)
    /\ reqs[i].upstream = "open"
    /\ reqs[i].heads # <<>>
    /\ reqs[i].inbound = "open"
    /\ Len(reqs[i].resSent) < MaxBodyBytes
    /\ reqs' = [reqs EXCEPT
         ![i].resSent = Append(@, ResponseBody[Len(@) + 1]),
         ![i].body = PipeBody(@, ResponseBody[Len(reqs[i].resSent) + 1])]
    /\ UNCHANGED <<gatewayReady, markerSeen, proc, tuns, lifeVars, outVars>>

\* proxyRes.pipe(res) (line 193): the backend closes its connection in the
\* middle of the body without an error; 'end' is never emitted on proxyRes,
\* and pipe() ends the destination on 'end' only.
ProxyResAborted(i) ==
    /\ Running
    /\ i \in 1..Len(reqs)
    /\ reqs[i].upstream = "open"
    /\ reqs[i].heads # <<>>
    /\ reqs' = [reqs EXCEPT ![i].upstream = "closed"]
    /\ UNCHANGED <<gatewayReady, markerSeen, proc, tuns, lifeVars, outVars>>

\* proxyReq.on("error") (lines 197-201).  res.writeHead throws
\* ERR_HTTP_HEADERS_SENT when the response head was already written; nothing
\* catches it.
ProxyReqError(i) ==
    /\ Running
    /\ i \in 1..Len(reqs)
    /\ reqs[i].upstream = "open"
    /\ IF reqs[i].heads # <<>>
       THEN /\ proc' = Crashed("headers_sent")
            /\ reqs' = NoConnections
            /\ tuns' = NoConnections
       ELSE /\ reqs' = [reqs EXCEPT ![i].heads = <<BadGatewayResponse.head>>,
                                    ![i].body = <<BadGatewayResponse.body>>,
                                    ![i].ended = TRUE,
                                    ![i].upstream = "closed",
                                    ![i].failedEarly = TRUE]
            /\ UNCHANGED <<proc, tuns>>
    /\ UNCHANGED <<gatewayReady, markerSeen, lifeVars, outVars>>

\* The client drops the inbound connection of an exchange in flight.  The
\* handler registers nothing on req or res for it (lines 169-204).
ClientAbort(i) ==
    /\ Running
    /\ i \in 1..Len(reqs)
    /\ reqs[i].kind = "proxy"
    /\ reqs[i].inbound = "open"
    /\ ~reqs[i].ended
    /\ reqs' = [reqs EXCEPT ![i].inbound = "closed"]
    /\ UNCHANGED <<gatewayReady, markerSeen, proc, tuns, lifeVars, outVars>>

(***************************************************************************)
(* Tunnels: the 'upgrade' handler of proxyServer (lines 207-274).          *)
(*                                                                         *)
(* The inbound socket comes from the http server (allowHalfOpen, no        *)
(* 'error' listener left on it, paused until it is piped); gwSocket comes  *)
(* from net.createConnection (no half-open: it closes once the backend     *)
(* ends it).  pipe() forwards 'data', and 'end' as end(), nothing else.    *)
(***************************************************************************)
Line503 == "HTTP/1.1 503 Service Unavailable\r\n\r\n"
Line502 == "HTTP/1.1 502 Bad Gateway\r\n\r\n"

\* The proxy never looks at the bytes of a tunnel, so each peer writes one
\* fixed stream of pairwise different bytes: a byte lost, doubled or out of
\* place shows in what arrives.
ClientStream == <<"c1", "c2", "c3", "c4">>
BackendStream == <<"b1", "b2", "b3", "b4">>
HeadBuffers == {<<>>, <<"h1">>}

Req(method, url, headers, remoteAddress) ==
    [method |-> method, url |-> url, httpVersion |-> <<"1", ".", "1">>,
     headers |-> headers, remoteAddress |-> remoteAddress]

Hdr(key, val) == [key |-> key, arr |-> FALSE, val |-> val]

UrlWs == <<"/", "w", "s">>
PeerAddress == <<"2", "0", "3">>

\* The upgrade request of the reactor model.
TunnelRequests ==
    { Req(MethodGet, UrlWs,
          <<Hdr("host", <<"h">>), Hdr("connection", <<"U", "p", "g", "r", "a", "d", "e">>),
            Hdr("upgrade", StrWebsocket)>>, PeerAddress) }

\* The upgrade requests the rebuilt head is checked on: each forwarding header
\* absent, present with an empty value, or present with a value.
Opt(key, vals) == {<<>>} \cup {<<Hdr(key, v)>> : v \in vals}

UpgradeRequests ==
    { Req(MethodGet, url,
          <<Hdr("host", <<"h">>)>> \o conn \o upg \o cookie \o xff \o proto \o xfhost \o realip,
          PeerAddress) :
        url \in {UrlWs, StrWssScheme \o <<"h">>},
        conn \in Opt("connection", {<<"U", "p", "g", "r", "a", "d", "e">>,
                                     <<"k", "e", "e", "p", "-", "a", "l", "i", "v", "e">>}),
        upg \in Opt("upgrade", {StrWebsocket}),
        cookie \in {<<>>, <<[key |-> "set-cookie", arr |-> TRUE,
                             val |-> <<<<"a">>, <<"b">>>>]>>},
        xff \in Opt("x-forwarded-for", {<<>>, <<"7">>, <<"9", ",", " ", "8">>}),
        proto \in Opt("x-forwarded-proto", {<<>>, <<"h", "t", "t", "p", "s">>}),
        xfhost \in Opt("x-forwarded-host", {<<>>, <<"x">>}),
        realip \in Opt("x-real-ip", {<<>>, <<"6">>}) }

\* what is written on gwSocket, item by item: the rebuilt request head, raw bytes
HeadWrite(lines) == [head |-> lines, byte |-> ""]
DataWrite(bytes) == [i \in 1..Len(bytes) |-> [head |-> <<>>, byte |-> bytes[i]]]

\* mutant: the upgrade handler does not look at the flag
GateAlwaysOpen(ready) == TRUE

\* line 210: the gate of the upgrade handler
GateOpen(ready) == ready

\* lines 257-262: what the connect callback writes before it pipes
ConnectWrites(req, head) ==
    <<HeadWrite(BuildUpgradeRequest(req))>>
      \o (IF Len(head) > 0 THEN DataWrite(head) ELSE <<>>)

\* mutant: the 'error' handler of gwSocket only destroys the inbound socket
GwErrorWritesNothing == <<>>

\* lines 269-273: what the 'error' handler of gwSocket writes to the inbound socket
GwErrorWrites == <<Line502>>

\* mutant: only the byte that came last is passed on
PipeLatestOnly(written, buffered) ==
    written \o DataWrite(<<buffered[Len(buffered)]>>)

\* socket.pipe(gwSocket) (line 266): the bytes queued on the inbound socket go
\* to gwSocket in the order they came
PipeToGateway(written, buffered) == written \o DataWrite(buffered)

\* proxyServer.on("upgrade") (lines 207-217)
Upgrade(req, head) ==
    /\ Running
    /\ server.listening
    /\ Len(tuns) < MaxTunnels
    /\ tuns' = Append(tuns,
         [req |-> req, head |-> head, ready |-> gatewayReady,
          phase |-> IF GateOpen(gatewayReady) THEN "connecting" ELSE "rejected",
          attempts |-> IF GateOpen(gatewayReady) THEN 1 ELSE 0,
          inb |-> IF GateOpen(gatewayReady) THEN "open" ELSE "destroyed",
          gw |-> IF GateOpen(gatewayReady) THEN "connecting" ELSE "none",
          clientFin |-> FALSE, early |-> 0,
          clientSent |-> <<>>, inBuf |-> <<>>, toBackend |-> <<>>,
          backendSent |-> <<>>,
          toClient |-> IF GateOpen(gatewayReady) THEN <<>> ELSE <<Line503>>])
    /\ UNCHANGED <<gatewayReady, markerSeen, proc, reqs, lifeVars, outVars>>

\* the connect callback of net.createConnection (lines 217-267)
GwConnected(t) ==
    /\ Running
    /\ t \in 1..Len(tuns)
    /\ tuns[t].phase = "connecting"
    /\ tuns' = [tuns EXCEPT
         ![t].phase = "established",
         ![t].early = Len(tuns[t].clientSent),
         ![t].toBackend = ConnectWrites(tuns[t].req, tuns[t].head),
         ![t].gw = IF tuns[t].inb = "readEnded" THEN "writeEnded" ELSE "open"]
    /\ UNCHANGED <<gatewayReady, markerSeen, proc, reqs, lifeVars, outVars>>

\* gwSocket.on("error") (lines 269-273): the same handler before and after
\* the connection is established
GwError(t) ==
    /\ Running
    /\ t \in 1..Len(tuns)
    /\ tuns[t].gw \in {"connecting", "open", "writeEnded"}
    /\ tuns' = [tuns EXCEPT
         ![t].phase = IF tuns[t].phase = "connecting" THEN "failed" ELSE "broken",
         ![t].toClient = IF tuns[t].inb \in {"open", "readEnded"}
                         THEN @ \o GwErrorWrites ELSE @,
         ![t].inb = "destroyed",
         ![t].gw = "closed"]
    /\ UNCHANGED <<gatewayReady, markerSeen, proc, reqs, lifeVars, outVars>>

\* The client writes a byte on the upgraded connection; the socket queues it
\* until something reads it.
ClientSend(t) ==
    /\ Running
    /\ t \in 1..Len(tuns)
    /\ tuns[t].inb \in {"open", "writeEnded"}
    /\ ~tuns[t].clientFin
    /\ Len(tuns[t].clientSent) < MaxClientBytes
    /\ tuns' = [tuns EXCEPT
         ![t].clientSent = Append(@, ClientStream[Len(@) + 1]),
         ![t].inBuf = Append(@, ClientStream[Len(tuns[t].clientSent) + 1])]
    /\ UNCHANGED <<gatewayReady, markerSeen, proc, reqs, lifeVars, outVars>>

\* The client ends its side of the upgraded connection (FIN).
ClientFin(t) ==
    /\ Running
    /\ t \in 1..Len(tuns)
    /\ tuns[t].inb \in {"open", "writeEnded"}
    /\ ~tuns[t].clientFin
    /\ tuns' = [tuns EXCEPT ![t].clientFin = TRUE]
    /\ UNCHANGED <<gatewayReady, markerSeen, proc, reqs, lifeVars, outVars>>

\* The client resets the upgraded connection: 'error' on the inbound socket,
\* on which the handler registers no listener (lines 207-274).
ClientReset(t) ==
    /\ Running
    /\ t \in 1..Len(tuns)
    /\ tuns[t].inb \in {"open", "writeEnded"}
    /\ ~tuns[t].clientFin
    /\ proc' = Crashed("socket_error")
    /\ reqs' = NoConnections
    /\ tuns' = NoConnections
    /\ UNCHANGED <<gatewayReady, markerSeen, lifeVars, outVars>>

\* socket.pipe(gwSocket) (line 266), 'data'
InboundFlow(t) ==
    /\ Running
    /\ t \in 1..Len(tuns)
    /\ tuns[t].phase = "established"
    /\ tuns[t].inb = "open"
    /\ tuns[t].gw = "open"
    /\ tuns[t].inBuf # <<>>
    /\ tuns' = [tuns EXCEPT ![t].toBackend = PipeToGateway(@, tuns[t].inBuf),
                            ![t].inBuf = <<>>]
    /\ UNCHANGED <<gatewayReady, markerSeen, proc, reqs, lifeVars, outVars>>

\* socket.pipe(gwSocket) (line 266), 'end': gwSocket.end().  The inbound
\* socket stays open for writing; once both of its sides are done it closes.
InboundEnd(t) ==
    /\ Running
    /\ t \in 1..Len(tuns)
    /\ tuns[t].clientFin
    /\ tuns[t].inBuf = <<>>
    /\ tuns[t].inb \in {"open", "writeEnded"}
    /\ tuns' = [tuns EXCEPT
         ![t].inb = IF @ = "open" THEN "readEnded" ELSE "destroyed",
         ![t].gw = IF @ = "open" THEN "writeEnded" ELSE @]
    /\ UNCHANGED <<gatewayReady, markerSeen, proc, reqs, lifeVars, outVars>>

\* gwSocket.pipe(socket) (line 265), 'data': gwSocket flows from the moment
\* it is piped, so a byte the backend writes goes to the inbound socket as
\* it arrives, if that socket can still be written.
PipeToClient(written, b) == Append(written, b)

BackendData(t) ==
    /\ Running
    /\ t \in 1..Len(tuns)
    /\ tuns[t].gw \in {"open", "writeEnded"}
    /\ Len(tuns[t].backendSent) < MaxBackendBytes
    /\ tuns' = [tuns EXCEPT
         ![t].backendSent = Append(@, BackendStream[Len(@) + 1]),
         ![t].toClient = IF tuns[t].inb \in {"open", "readEnded"}
                         THEN PipeToClient(@, BackendStream[Len(tuns[t].backendSent) + 1])
                         ELSE @]
    /\ UNCHANGED <<gatewayReady, markerSeen, proc, reqs, lifeVars, outVars>>

\* gwSocket.pipe(socket) (line 265), 'end': the backend ends its side (FIN),
\* pipe() calls socket.end().  gwSocket itself closes; the inbound socket
\* stays open for reading until the client ends it.
BackendEnd(t) ==
    /\ Running
    /\ t \in 1..Len(tuns)
    /\ tuns[t].gw \in {"open", "writeEnded"}
    /\ tuns' = [tuns EXCEPT
         ![t].gw = "closed",
         ![t].inb = IF @ = "open" THEN "writeEnded"
                    ELSE IF @ = "readEnded" THEN "destroyed" ELSE @]
    /\ UNCHANGED <<gatewayReady, markerSeen, proc, reqs, lifeVars, outVars>>

(***************************************************************************)
(* Start-up: the module body runs once, top to bottom, before any event    *)
(* is handled: the settings file (lines 128-166), the child process        *)
(* (lines 277-316), the listener (lines 319-323).  proc.state says how far *)
(* it got: starting, bootstrapped, spawned, then running.                  *)
(*                                                                         *)
(* The settings file is absent, unreadable, not JSON (invalid), or JSON    *)
(* with a value: an object with or without a key of its own (other), with  *)
(* or without a gateway object, that with or without a port and a          *)
(* trustedProxies entry; or an array.                                      *)
(***************************************************************************)
JsonValue(shape, other, gw, port, trusted) ==
    [shape |-> shape, other |-> other, gateway |-> gw, port |-> port, trusted |-> trusted]

EmptyObject == JsonValue("object", "none", FALSE, "none", "none")
EmptyArray == JsonValue("array", "none", FALSE, "none", "none")

File(kind, value) == [kind |-> kind, value |-> value]
NoFile == File("absent", EmptyObject)

\* lines 134-137: existsSync(configDir), mkdirSync(configDir, {recursive})
EnsureDir(f) ==
    IF f.parent THEN [ok |-> TRUE, fs |-> f]
    ELSE IF f.mkdirFails THEN [ok |-> FALSE, fs |-> f]
    ELSE [ok |-> TRUE, fs |-> [f EXCEPT !.parent = TRUE]]

\* lines 141-152: a file that cannot be read or parsed leaves config = {}
LoadConfig(f) ==
    IF f.file.kind = "json" THEN f.file.value ELSE EmptyObject

\* lines 155-158
WithTrustedProxies(config) ==
    [config EXCEPT !.gateway = TRUE, !.trusted = "loopback"]

\* JSON.stringify (line 161): of an array, only the elements are written
JsonStringify(config) ==
    IF config.shape = "array" THEN EmptyArray ELSE config

\* line 161: writeFileSync(configPath, ...), configPath inside stateDir
WriteConfig(f, config) ==
    IF f.dir /\ f.writable
    THEN [ok |-> TRUE, fs |-> [f EXCEPT !.file = File("json", JsonStringify(config))]]
    ELSE [ok |-> FALSE, fs |-> f]

\* line 165
BootstrapFailed == [state |-> "exited", reason |-> "bootstrap_failure", code |-> 1]

\* the try/catch of lines 132-166
Bootstrap ==
    /\ proc.state = "starting"
    /\ LET dir == EnsureDir(fs)
           written == WriteConfig(dir.fs, WithTrustedProxies(LoadConfig(dir.fs)))
       IN IF dir.ok /\ written.ok
          THEN /\ fs' = written.fs
               /\ proc' = [proc EXCEPT !.state = "bootstrapped"]
          ELSE /\ fs' = dir.fs
               /\ proc' = BootstrapFailed
    /\ UNCHANGED <<gatewayReady, markerSeen, reqs, tuns, gateway, server, outVars>>

\* spawn (lines 277-290); whether the child can be started shows later, in
\* its 'error' event
SpawnGateway(ok) ==
    /\ proc.state = "bootstrapped"
    /\ proc' = [proc EXCEPT !.state = "spawned"]
    /\ gateway' = [gateway EXCEPT !.state = IF ok THEN "running" ELSE "failing"]
    /\ UNCHANGED <<gatewayReady, markerSeen, reqs, tuns, fs, server, outVars>>

\* proxyServer.listen (lines 319-323), the last statement that does
\* something before the handlers take over
Listen ==
    /\ proc.state = "spawned"
    /\ proc' = [proc EXCEPT !.state = IF gateway.state = "running"
                                      THEN "running" ELSE "listening"]
    /\ server' = [server EXCEPT !.listening = TRUE]
    /\ UNCHANGED <<gatewayReady, markerSeen, reqs, tuns, fs, gateway, outVars>>

(***************************************************************************)
(* Shutdown: process.on("SIGTERM") (lines 326-332).                        *)
(***************************************************************************)
MaxSigterms == 1

\* the connection of exchange i is gone, or idle and closed by close()
ExchangeDone(i) == reqs[i].ended \/ reqs[i].inbound = "closed"

\* the inbound socket of tunnel t is gone
TunnelDone(t) == tuns[t].inb = "destroyed"

\* proxyServer, closed, emits 'close' once it has no connection left
Drained ==
    /\ \A i \in 1..Len(reqs) : ExchangeDone(i)
    /\ \A t \in 1..Len(tuns) : TunnelDone(t)

\* mutant: close() leaves the listener as it is
ListeningKept(listening) == listening

\* line 328: proxyServer.close() stops the listener before it returns
ListeningAfterClose(listening) == FALSE

\* process.on("SIGTERM") (lines 326-332): close() stops the listener at
\* once and leaves the callback for the 'close' event
Sigterm ==
    /\ Running
    /\ server.sigterms < MaxSigterms
    /\ server' = [server EXCEPT !.sigterms = @ + 1,
                                !.listening = ListeningAfterClose(@),
                                !.closeCallbacks = @ + 1]
    /\ UNCHANGED <<gatewayReady, markerSeen, proc, reqs, tuns, fs, gateway, outVars>>

\* the callback of proxyServer.close (lines 328-331), once per close() call
ServerClosed ==
    /\ Running
    /\ server.closeCallbacks > 0
    /\ Drained
    /\ gateway' = [gateway EXCEPT !.kills = @ + server.closeCallbacks]
    /\ server' = [server EXCEPT !.closeCallbacks = 0]
    /\ UNCHANGED <<gatewayReady, markerSeen, proc, reqs, tuns, fs, outVars>>

\* a volume on which the bootstrap goes through
GoodVolume ==
    [parent |-> TRUE, dir |-> TRUE, mkdirFails |-> FALSE, writable |-> TRUE,
     file |-> NoFile, original |-> NoFile]

InitRest ==
    /\ gatewayReady = FALSE
    /\ markerSeen = FALSE
    /\ proc = [state |-> "starting", reason |-> "none", code |-> 0]
    /\ reqs = <<>>
    /\ tuns = <<>>
    /\ gateway = [state |-> "none", code |-> 0, kills |-> 0]
    /\ server = [listening |-> FALSE, sigterms |-> 0, closeCallbacks |-> 0]
    /\ console = [ready |-> 0, err |-> 0]
    /\ stream = [hasMarker |-> FALSE, partial |-> <<>>]

Init ==
    /\ fs = GoodVolume
    /\ InitRest

\* The settings files the bootstrap is checked on.
ObjectValues ==
    { JsonValue("object", other, gw, port, trusted) :
        other \in {"none", "theme"}, gw \in BOOLEAN,
        port \in {"none", "18789"}, trusted \in {"none", "10.0.0.1", "loopback"} }

Files ==
    {NoFile, File("unreadable", EmptyObject), File("invalid", EmptyObject),
     File("json", EmptyArray)}
    \cup {File("json", v) : v \in {o \in ObjectValues :
                                      ~o.gateway => (o.port = "none" /\ o.trusted = "none")}}

\* The volumes: configDir there or not, stateDir there or not, mkdir and
\* write allowed or not, and the file, which needs its directory.  A file
\* that cannot be opened for reading cannot be opened for writing either.
Volumes ==
    { v \in [parent : BOOLEAN, dir : BOOLEAN, mkdirFails : BOOLEAN,
             writable : BOOLEAN, file : Files, original : Files] :
        /\ v.original = v.file
        /\ v.dir => v.parent
        /\ v.file # NoFile => v.dir
        /\ v.file.kind = "unreadable" => ~v.writable }

InitBootstrap ==
    /\ fs \in Volumes
    /\ InitRest

\* the module body
NextStartup ==
    \/ Bootstrap
    \/ \E ok \in BOOLEAN : SpawnGateway(ok)
    \/ Listen
    \/ GatewayError

\* the gateway process
NextGateway ==
    \/ \E output \in StdoutChunks : StdoutData(output)
    \/ \E code \in ExitCodes : GatewayExit(code)

\* the gateway process as an exchange sees it: it prints whole lines until
\* it has announced itself, and nothing that holds a marker after that
NextGatewayOnce ==
    \/ \E output \in StdoutChunks \ {StrList, StrEning} :
          /\ HasMarker(output) => ~gatewayReady
          /\ StdoutData(output)
    \/ \E code \in ExitCodes : GatewayExit(code)

\* the gateway process at its briefest: it announces itself, it exits
NextGatewayBrief ==
    \/ ~gatewayReady /\ StdoutData(StrListening)
    \/ \E code \in ExitCodes : GatewayExit(code)

\* the gateway process as a tunnel sees it: it announces itself, it ends
NextGatewayEnds ==
    \/ ~gatewayReady /\ StdoutData(StrListening)
    \/ GatewayExit(0)

\* the unary exchanges
NextUnary ==
    \/ \E method \in Methods, url \in Urls : HttpRequest(method, url, PlainRequest)
    \/ \E i \in 1..MaxRequests, status \in BackendStatuses :
          ProxyResponse(i, status, PlainResponse)
    \/ \E i \in 1..MaxRequests : ProxyResEnd(i)
    \/ \E i \in 1..MaxRequests : ProxyResAborted(i)
    \/ \E i \in 1..MaxRequests : ProxyReqError(i)
    \/ \E i \in 1..MaxRequests : ClientAbort(i)

\* the upgraded connections
NextTunnel ==
    \/ \E req \in TunnelRequests, head \in HeadBuffers : Upgrade(req, head)
    \/ \E t \in 1..MaxTunnels : GwConnected(t)
    \/ \E t \in 1..MaxTunnels : GwError(t)
    \/ \E t \in 1..MaxTunnels : ClientSend(t)
    \/ \E t \in 1..MaxTunnels : ClientFin(t)
    \/ \E t \in 1..MaxTunnels : ClientReset(t)
    \/ \E t \in 1..MaxTunnels : InboundFlow(t)
    \/ \E t \in 1..MaxTunnels : InboundEnd(t)
    \/ \E t \in 1..MaxTunnels : BackendData(t)
    \/ \E t \in 1..MaxTunnels : BackendEnd(t)

\* the gateway's stderr
NextStderr == \E output \in StdoutChunks : StderrData(output)

\* the termination signal and what follows from it
NextShutdown ==
    \/ Sigterm
    \/ ServerClosed

\* the bodies of the unary exchanges
NextBodies ==
    \/ \E i \in 1..MaxRequests : RequestData(i)
    \/ \E i \in 1..MaxRequests : ProxyResData(i)

Next ==
    \/ NextStartup
    \/ NextGateway
    \/ NextStderr
    \/ NextUnary
    \/ NextBodies
    \/ NextTunnel
    \/ NextShutdown

\* The whole reactor.
Spec == Init /\ [][Next]_vars

\* Exchanges and tunnels own their state and meet only in gatewayReady and in
\* the process: the reactor with unary exchanges alone, and with tunnels alone.
SpecUnary == Init /\ [][NextStartup \/ NextGatewayOnce \/ NextUnary]_vars
SpecTunnel == Init /\ [][NextStartup \/ NextGatewayEnds \/ NextTunnel]_vars

\* The upgrade handler and its connect callback on every request of
\* UpgradeRequests, once the gateway has said it is listening.
NextHeaders ==
    \/ NextStartup
    \/ StdoutData(StrListening)
    \/ \E req \in UpgradeRequests : Upgrade(req, <<>>)
    \/ \E t \in 1..MaxTunnels : GwConnected(t)

SpecHeaders == Init /\ [][NextHeaders]_vars

\* The gateway's output: stdout in data events of any cut, stderr, and the
\* probes that read the flag.
NextProbe == \E method \in Methods : HttpRequest(method, UrlHealth, PlainRequest)

SpecStdout == Init /\ [][NextStartup \/ NextGateway \/ NextStderr \/ NextProbe]_vars

\* What the listener dispatches: 'request' for a request without upgrade
\* intent, 'upgrade' for one with it, whatever its url.
DispatchUpgrades ==
    { Req(MethodGet, url,
          <<Hdr("host", <<"h">>), Hdr("connection", <<"U", "p", "g", "r", "a", "d", "e">>),
            Hdr("upgrade", StrWebsocket)>>, PeerAddress) : url \in {UrlWs, UrlHealth} }

NextDispatch ==
    \/ \E method \in Methods, url \in Urls : HttpRequest(method, url, PlainRequest)
    \/ \E req \in DispatchUpgrades : Upgrade(req, <<>>)
    \/ \E t \in 1..MaxTunnels : GwConnected(t)
    \/ \E t \in 1..MaxTunnels : GwError(t)

SpecDispatch == Init /\ [][NextStartup \/ NextGatewayBrief \/ NextDispatch]_vars

\* One exchange with a backend that answers: the request and the response
\* with every header block, their bodies byte by byte.  Exchanges share no
\* state, so one is looked at.
NextPassThrough ==
    \/ \E method \in Methods, fields \in RequestBlocks :
          reqs = <<>> /\ HttpRequest(method, UrlFoo, fields)
    \/ \E i \in 1..MaxRequests, status \in BackendStatuses, fields \in ResponseBlocks :
          ProxyResponse(i, status, fields)
    \/ \E i \in 1..MaxRequests : RequestData(i)
    \/ \E i \in 1..MaxRequests : ProxyResData(i)
    \/ \E i \in 1..MaxRequests : ProxyResEnd(i)

SpecPassThrough == Init /\ [][NextStartup \/ NextPassThrough]_vars

\* The module body on every volume of Volumes, and the gateway it starts.
SpecBootstrap == InitBootstrap /\ [][NextStartup \/ NextGatewayBrief]_vars

MaxHeldRequests == 1

\* The connections a shutdown meets: exchanges and tunnels that open, stay
\* and close, whatever bytes they carry.
NextConnections ==
    \/ \E url \in Urls :
          Len(reqs) < MaxHeldRequests /\ HttpRequest(MethodGet, url, PlainRequest)
    \/ \E i \in 1..MaxRequests : ProxyResponse(i, 200, PlainResponse)
    \/ \E i \in 1..MaxRequests : ProxyResEnd(i)
    \/ \E i \in 1..MaxRequests : ClientAbort(i)
    \/ \E req \in TunnelRequests : Upgrade(req, <<>>)
    \/ \E t \in 1..MaxTunnels : GwConnected(t)
    \/ \E t \in 1..MaxTunnels : GwError(t)
    \/ \E t \in 1..MaxTunnels : ClientFin(t)
    \/ \E t \in 1..MaxTunnels : InboundEnd(t)
    \/ \E t \in 1..MaxTunnels : BackendEnd(t)

NextLifecycle ==
    \/ NextStartup
    \/ NextGatewayBrief
    \/ NextShutdown
    \/ NextConnections

\* The life of the process: start-up, the gateway's exit, the termination
\* signal, with connections coming and going.
SpecLifecycle == Init /\ [][NextLifecycle]_vars

\* The event loop runs every handler whose event has occurred: the module
\* body runs to its end, an end on the inbound socket is passed on, the close
\* callback runs once the server has emitted 'close'.  What clients and the
\* backend do, and when, is up to them.
FairLifecycle ==
    /\ SpecLifecycle
    /\ WF_vars(NextStartup)
    /\ WF_vars(ServerClosed)
    /\ \A t \in 1..MaxTunnels : WF_vars(InboundEnd(t))
(***************************************************************************)
(* The claims.                                                             *)
(***************************************************************************)
IsProbe(i) == reqs[i].kind = "probe"
IsProxied(i) == reqs[i].kind = "proxy"
StatusOf(i) == reqs[i].heads[1].status

\* C1: a probe is answered 503 "starting" when no stdout data holding a
\* marker was observed before it and 200 "ok" otherwise; after a probe
\* answered 200 no later probe is answered 503, and the flag, once set by a
\* marker, is set in every later state.
C1_ProbeFollowsReadiness ==
    /\ gatewayReady = markerSeen
    /\ \A i \in 1..Len(reqs) : IsProbe(i) =>
         /\ reqs[i].heads =
              <<ResHead(IF reqs[i].seen THEN 200 ELSE 503, "application/json")>>
         /\ reqs[i].body = <<IF reqs[i].seen THEN "ok" ELSE "starting">>
    /\ \A i, j \in 1..Len(reqs) :
         (i < j /\ IsProbe(i) /\ IsProbe(j) /\ StatusOf(i) = 200) => StatusOf(j) = 200

\* C1 witness: a probe answered 503, then a marker, then a probe answered 200
C1_Witness ==
    /\ Len(reqs) >= 2
    /\ IsProbe(1) /\ StatusOf(1) = 503
    /\ IsProbe(2) /\ StatusOf(2) = 200

\* C2: an upgrade handled while the flag is NOT_READY gets the 503 status
\* line and a destroyed socket and no connection to the backend; a
\* connection to the backend is only ever opened for an upgrade handled
\* while the flag is READY.
C2_NotReadyUpgradeRejected ==
    \A t \in 1..Len(tuns) :
        /\ ~tuns[t].ready =>
             /\ tuns[t].toClient = <<Line503>>
             /\ tuns[t].inb = "destroyed"
             /\ tuns[t].attempts = 0
             /\ tuns[t].gw = "none"
             /\ tuns[t].toBackend = <<>>
        /\ (tuns[t].attempts > 0 \/ tuns[t].gw # "none") =>
             (tuns[t].ready /\ gatewayReady)

\* C2 witness: an upgrade was rejected, and the gateway became ready after it
C2_Witness ==
    \E t \in 1..Len(tuns) : ~tuns[t].ready /\ gatewayReady

\* C3: a proxied request whose backend connection fails before any response
\* is answered 502 with the plain-text body, after exactly one connection
\* attempt, and the process goes on running.
C3_EarlyFailureIs502 ==
    \A i \in 1..Len(reqs) : reqs[i].failedEarly =>
        /\ reqs[i].heads = <<ResHead(502, "text/plain")>>
        /\ reqs[i].body = <<"Bad Gateway - Gateway unavailable">>
        /\ reqs[i].ended
        /\ reqs[i].attempts = 1
        /\ Running

\* C3 witness: a request failed that way while the gateway was not ready yet,
\* and a later request was handled
C3_Witness ==
    /\ Len(reqs) >= 2
    /\ reqs[1].failedEarly
    /\ ~reqs[1].seen
    /\ reqs[2].heads # <<>>

\* C4: an upgrade accepted while READY whose connection attempt fails gets
\* the 502 status line and a destroyed socket, after one attempt, with
\* nothing written to the backend.
C4_ConnectFailureIs502 ==
    \A t \in 1..Len(tuns) : tuns[t].phase = "failed" =>
        /\ tuns[t].ready
        /\ tuns[t].toClient = <<Line502>>
        /\ tuns[t].inb = "destroyed"
        /\ tuns[t].gw = "closed"
        /\ tuns[t].attempts = 1
        /\ tuns[t].toBackend = <<>>

\* C4 witness: the attempt failed for an upgrade with a head buffer and with
\* bytes the client had already sent
C4_Witness ==
    \E t \in 1..Len(tuns) :
        /\ tuns[t].phase = "failed"
        /\ tuns[t].head # <<>>
        /\ tuns[t].clientSent # <<>>

\* C5: the process exits only on bootstrap failure, on backend start
\* failure or on backend exit: no event on one proxied connection ends it.
C5_OnlyLifecycleExits ==
    proc.state = "exited" =>
        proc.reason \in {"bootstrap_failure", "spawn_error", "backend_exit"}

EverEstablished(t) == tuns[t].phase \in {"established", "broken"}

\* nothing the proxy has yet to do for tunnel t: no queued byte or end to pass on
Quiescent(t) ==
    /\ ~(tuns[t].inb = "open" /\ tuns[t].gw = "open" /\ tuns[t].inBuf # <<>>)
    /\ ~(tuns[t].clientFin /\ tuns[t].inBuf = <<>>
         /\ tuns[t].inb \in {"open", "writeEnded"})

\* C6: once either side of an established tunnel has closed or failed, both
\* sockets are closed in every state where the proxy has nothing left to do.
C6_BothEndsClose ==
    \A t \in 1..Len(tuns) :
        (/\ EverEstablished(t)
         /\ Quiescent(t)
         /\ (tuns[t].inb # "open" \/ tuns[t].gw \notin {"open"}))
        => (tuns[t].inb = "destroyed" /\ tuns[t].gw = "closed")

\* C7: for a proxied exchange, a closed inbound connection has its upstream
\* connection closed, and a closed upstream connection has its inbound
\* response ended.
C7_UnaryClosePropagates ==
    \A i \in 1..Len(reqs) : IsProxied(i) =>
        /\ reqs[i].inbound = "closed" => reqs[i].upstream = "closed"
        /\ reqs[i].upstream = "closed" => reqs[i].ended

ForwardingHeaders ==
    {"x-forwarded-for", "x-forwarded-proto", "x-forwarded-host", "x-real-ip"}

\* header names compare without case
LowerName(name) ==
    CASE name = "X-Forwarded-For" -> "x-forwarded-for"
      [] name = "X-Forwarded-Proto" -> "x-forwarded-proto"
      [] name = "X-Forwarded-Host" -> "x-forwarded-host"
      [] name = "X-Real-IP" -> "x-real-ip"
      [] name = "Connection" -> "connection"
      [] name = "Upgrade" -> "upgrade"
      [] OTHER -> name

LinesNamed(lines, h) == {k \in 1..Len(lines) : LowerName(lines[k].key) = h}

\* the address the claim computes: the first entry of an inbound
\* X-Forwarded-For, else the peer address
ClaimedClientAddress(req) ==
    IF HasHeader(req.headers, "x-forwarded-for")
    THEN Trim(SplitFirst(HeaderEntry(req.headers, "x-forwarded-for").val))
    ELSE req.remoteAddress

ClaimedValue(req, h) ==
    CASE h = "x-forwarded-for" -> ClaimedClientAddress(req)
      [] h = "x-real-ip" -> ClaimedClientAddress(req)
      [] h = "x-forwarded-host" -> HeaderEntry(req.headers, "host").val
      [] h = "x-forwarded-proto" ->
           IF StartsWith(req.url, StrWssScheme) THEN <<"w", "s", "s">> ELSE <<"w", "s">>

\* C8: the request head written to the backend holds each of the four
\* forwarding headers exactly once: with the inbound value when the inbound
\* request carries the header, with the computed value when it does not.
C8_ForwardingHeadersOnce ==
    \A t \in 1..Len(tuns) : EverEstablished(t) =>
        \A h \in ForwardingHeaders :
            LET lines == tuns[t].toBackend[1].head
                named == LinesNamed(lines, h)
            IN /\ Cardinality(named) = 1
               /\ \A k \in named :
                    lines[k].val =
                        IF HasHeader(tuns[t].req.headers, h)
                        THEN HeaderEntry(tuns[t].req.headers, h).val
                        ELSE ClaimedValue(tuns[t].req, h)

\* the head line 225-254 builds for each request of the reactor model
RebuiltHeads == [r \in TunnelRequests |-> BuildUpgradeRequest(r)]

\* C9: what is written to the backend connection is the rebuilt request
\* head, then the head buffer once, then the bytes the client sent, in the
\* order sent; what is not yet written is still queued, in order, bytes that
\* came before the connection was made included.
C9_BackendStream ==
    \A t \in 1..Len(tuns) :
        IF EverEstablished(t)
        THEN LET k == Len(tuns[t].clientSent) - Len(tuns[t].inBuf)
             IN /\ k >= 0
                /\ tuns[t].toBackend =
                     <<HeadWrite(RebuiltHeads[tuns[t].req])>>
                       \o DataWrite(tuns[t].head)
                       \o DataWrite(SubSeq(tuns[t].clientSent, 1, k))
                /\ tuns[t].inBuf =
                     SubSeq(tuns[t].clientSent, k + 1, Len(tuns[t].clientSent))
        ELSE tuns[t].toBackend = <<>>

\* C9 witness: a tunnel with a head buffer, a byte sent before the connection
\* was made and one after it, all written
C9_Witness ==
    \E t \in 1..Len(tuns) :
        /\ tuns[t].phase = "established"
        /\ tuns[t].head # <<>>
        /\ tuns[t].early = 1
        /\ Len(tuns[t].clientSent) = 2
        /\ tuns[t].inBuf = <<>>
        /\ Len(tuns[t].toBackend) = 4

IsPrefix(p, q) == Len(p) <= Len(q) /\ SubSeq(q, 1, Len(p)) = p

\* C10: on a tunnel whose backend connection was established, what goes to
\* the client is a prefix of what the backend wrote.
C10_ClientStreamIsBackendPrefix ==
    \A t \in 1..Len(tuns) :
        EverEstablished(t) => IsPrefix(tuns[t].toClient, tuns[t].backendSent)

\* C11: when the gateway has exited, the process has exited with the
\* gateway's code, or with 1 when that code is null; when the gateway could
\* not be started, the process has exited with 1.
C11_ExitCodeMirrorsBackend ==
    /\ gateway.state = "exited" =>
         /\ proc.state = "exited"
         /\ proc.code = (IF gateway.code = -1 THEN 1 ELSE gateway.code)
    /\ gateway.state = "failed" =>
         /\ proc.state = "exited"
         /\ proc.code = 1

\* C11 witness: the gateway ended by a signal while a shutdown was waiting
\* for its connections to close
C11_Witness ==
    /\ gateway.state = "exited"
    /\ gateway.code = -1
    /\ proc.code = 1
    /\ server.closeCallbacks > 0

\* C12: the backend has been sent the termination request only in states
\* where the listener no longer accepts connections, and the listener stops
\* accepting as soon as the termination signal is handled.
C12_ListenerStopsBeforeKill ==
    /\ gateway.kills > 0 => ~server.listening
    /\ server.sigterms > 0 => ~server.listening

\* C12 witness: the termination request was sent after a tunnel accepted
\* before the signal had closed
C12_Witness ==
    /\ Running
    /\ gateway.kills > 0
    /\ \E t \in 1..Len(tuns) : EverEstablished(t)

\* C13: once the termination signal has been handled, the backend is
\* eventually sent the termination request (or the process has exited by then).
C13_SigtermReachesBackend ==
    (server.sigterms > 0) ~> (gateway.kills > 0 \/ proc.state = "exited")

BootstrapDone == proc.state \notin {"starting"}

\* C14: a settings file that is there and cannot be read or parsed is left
\* as it was and the bootstrap fails, the gateway not started; of a file that
\* could be parsed, the keys other than trustedProxies are kept.
C14_UnreadableFileKept ==
    BootstrapDone =>
        /\ fs.original.kind \in {"unreadable", "invalid"} =>
             /\ fs.file = fs.original
             /\ proc = BootstrapFailed
             /\ gateway.state = "none"
        /\ fs.original.kind = "json" =>
             /\ fs.file.kind = "json"
             /\ fs.file.value.shape = fs.original.value.shape
             /\ fs.file.value.other = fs.original.value.other
             /\ fs.file.value.port = fs.original.value.port

\* C15: the gateway is started only when the settings file on disk declares
\* the loopback addresses as trusted proxies; when the directory cannot be
\* made or the file cannot be written, the process has exited with 1 and the
\* gateway was never started.
C15_BackendAfterTrustedConfig ==
    /\ gateway.state # "none" =>
         /\ fs.file.kind = "json"
         /\ fs.file.value.gateway
         /\ fs.file.value.trusted = "loopback"
    /\ (BootstrapDone /\ (~fs.parent \/ ~fs.dir \/ ~fs.writable)) =>
         /\ proc = BootstrapFailed
         /\ gateway.state = "none"

\* C16: the readiness entry is logged once, by the data event that sets the
\* flag: one entry when the flag is set, none before.
C16_ReadyLoggedOnce ==
    console.ready = (IF gatewayReady THEN 1 ELSE 0)

\* C19: once the gateway's stdout, taken as one stream, holds a marker, the
\* flag is set, however the stream was cut into data events.
C19_MarkerInStreamSetsReady ==
    stream.hasMarker => gatewayReady

\* C17: whatever the listener dispatches for the probe path is answered from
\* the flag and never gets a connection to the backend: as a request it is
\* a probe, as an upgrade it has no backend socket.
C17_ProbePathNeverReachesBackend ==
    /\ \A i \in 1..Len(reqs) : reqs[i].url = UrlHealth =>
         /\ IsProbe(i)
         /\ reqs[i].attempts = 0
         /\ reqs[i].upstream = "none"
         /\ reqs[i].heads = <<HealthResponse(reqs[i].seen).head>>
    /\ \A t \in 1..Len(tuns) : tuns[t].req.url = UrlHealth =>
         /\ tuns[t].attempts = 0
         /\ tuns[t].gw = "none"
         /\ tuns[t].toBackend = <<>>

\* C20: no exchange gets a second response head: none holds two heads, and
\* the handlers never call writeHead on a response whose head is written.
C20_ResponseHeadWrittenOnce ==
    /\ \A i \in 1..Len(reqs) : Len(reqs[i].heads) <= 1
    /\ proc.reason # "headers_sent"

\* the values of the fields named n, whatever the case of the name, in order
ValuesNamed(fields, n) ==
    LET named == SelectSeq(fields, LAMBDA f : ToLowerCase(f.name) = n)
    IN [k \in 1..Len(named) |-> named[k].val]

\* the values of a repeated field as one value
Combined(vals) == Join(vals, <<",", " ">>)

AddedConnection == Field(<<"C", "o", "n", "n", "e", "c", "t", "i", "o", "n">>, StrKeepAlive)

\* lines carries the fields of wire: every line is named in lower case after
\* a field of wire, and every field of wire has its value in lines, a
\* repeated one the values in order (the first only for a field that cannot
\* repeat); added holds the lines that may come on top.
HeadersCarried(wire, lines, added) ==
    /\ \A k \in 1..Len(lines) :
         \/ lines[k] \in added
         \/ /\ lines[k].name = ToLowerCase(lines[k].name)
            /\ ValuesNamed(wire, lines[k].name) # <<>>
    /\ \A j \in 1..Len(wire) :
         LET n == ToLowerCase(wire[j].name)
         IN Combined(ValuesNamed(lines, n)) =
              IF n \in SingleFields THEN ValuesNamed(wire, n)[1]
              ELSE Combined(ValuesNamed(wire, n))

\* what the agent adds to a request that names no Connection
AddedTo(wire) ==
    IF ValuesNamed(wire, NameConnection) = <<>> THEN {AddedConnection} ELSE {}

====
